---- MODULE Spec2Model ----
(***************************************************************************)
(* Model of calculadora_pagamento033.py: the pay calculator "Calculadora". *)
(*                                                                         *)
(* The form (the tk variables of Calculadora.__init__) is the state; the   *)
(* handler Calculadora.calcular is modelled as the button press followed   *)
(* by the answers to the modal prompts it may open (start day, MEI         *)
(* activity) and the closing of the result popup; Calculadora.limpar is    *)
(* the "Limpar" button.                                                    *)
(*                                                                         *)
(* Numbers.  Python floats are IEEE 754 binary64 numbers and are modelled  *)
(* as such: every sum, product and quotient is rounded to the nearest      *)
(* float, ties to even, with subnormals, infinities and nan.  TLC's        *)
(* integers have 32 bits, so a significand is kept as a sequence of 14-bit *)
(* limbs.  The sign of a zero is not kept (the program never reads it).    *)
(*                                                                         *)
(* Texts.  A character is its Unicode code point, a text typed in the form *)
(* a sequence of code points; int(), float() and str.isdigit() are         *)
(* modelled on all of Unicode 14 (decimal digits of every script, other    *)
(* digit characters, white space).                                         *)
(***************************************************************************)
EXTENDS Integers, Sequences, FiniteSets, TLC


\* ------------------------------------------------------------------------
\* Natural numbers of any size: sequences of 14-bit limbs, lowest limb
\* first, no zero limb at the top (<<>> is 0). TLC's integers are 32 bits
\* wide; the 53-bit significand of a float does not fit into one.
\* ------------------------------------------------------------------------

LimbBits == 14
Limb == 2^LimbBits

RECURSIVE BNTrim(_)
BNTrim(x) ==
    IF x = <<>> THEN x
    ELSE IF x[Len(x)] # 0 THEN x
    ELSE BNTrim(SubSeq(x, 1, Len(x) - 1))

RECURSIVE BNFromNat(_)
BNFromNat(n) == IF n = 0 THEN <<>> ELSE <<n % Limb>> \o BNFromNat(n \div Limb)

LimbAt(x, i) == IF i >= 1 /\ i <= Len(x) THEN x[i] ELSE 0

\* the number of bits of x
BNBits(x) ==
    LET RECURSIVE NatBits(_)
        NatBits(n) == IF n = 0 THEN 0 ELSE 1 + NatBits(n \div 2)
    IN  IF x = <<>> THEN 0 ELSE LimbBits * (Len(x) - 1) + NatBits(x[Len(x)])

\* x * 2^n
BNShl(x, n) ==
    LET q == n \div LimbBits
        r == n % LimbBits
        p == 2^r
        h == 2^(LimbBits - r)
    IN  BNTrim([i \in 1..(Len(x) + q + 1) |->
                   IF i <= q THEN 0
                   ELSE (LimbAt(x, i - q) % h) * p + (LimbAt(x, i - q - 1) \div h)])

\* x \div 2^n
BNShr(x, n) ==
    LET q == n \div LimbBits
        r == n % LimbBits
        p == 2^r
        h == 2^(LimbBits - r)
    IN  IF Len(x) <= q THEN <<>>
        ELSE BNTrim([i \in 1..(Len(x) - q) |->
                        (x[i + q] \div p) + (LimbAt(x, i + q + 1) % p) * h])

\* x + y
BNAdd(x, y) ==
    LET RECURSIVE BNAddC(_, _)
        BNAddC(i, c) ==
            IF i > Len(x) /\ i > Len(y) THEN (IF c = 0 THEN <<>> ELSE <<c>>)
            ELSE LET s == LimbAt(x, i) + LimbAt(y, i) + c
                 IN  <<s % Limb>> \o BNAddC(i + 1, s \div Limb)
    IN  BNAddC(1, 0)

\* x - y for x >= y
BNSub(x, y) ==
    LET RECURSIVE BNSubC(_, _)
        BNSubC(i, c) ==
            IF i > Len(x) THEN <<>>
            ELSE LET s == x[i] - LimbAt(y, i) - c
                 IN  <<(s + Limb) % Limb>> \o BNSubC(i + 1, IF s < 0 THEN 1 ELSE 0)
    IN  BNTrim(BNSubC(1, 0))

\* x < y
BNLt(x, y) ==
    LET RECURSIVE BNLtFrom(_)
        BNLtFrom(i) ==
            IF i = 0 THEN FALSE
            ELSE IF x[i] # y[i] THEN x[i] < y[i]
            ELSE BNLtFrom(i - 1)
    IN  IF Len(x) # Len(y) THEN Len(x) < Len(y) ELSE BNLtFrom(Len(x))

\* x * n + c for 0 <= n, c < 2^17
BNMulSmall(x, n, c) ==
    LET RECURSIVE BNMulSmallC(_, _)
        BNMulSmallC(i, k) ==
            IF i > Len(x) THEN BNFromNat(k)
            ELSE LET s == x[i] * n + k
                 IN  <<s % Limb>> \o BNMulSmallC(i + 1, s \div Limb)
    IN  BNTrim(BNMulSmallC(1, c))

\* x \div n and x % n for 0 < n < 2^17
BNDivSmall(x, n) ==
    LET RECURSIVE BNDivSmallFrom(_, _, _)
        BNDivSmallFrom(i, r, q) ==
            IF i = 0 THEN [q |-> BNTrim(q), r |-> r]
            ELSE BNDivSmallFrom(i - 1, (r * Limb + x[i]) % n,
                                <<(r * Limb + x[i]) \div n>> \o q)
    IN  BNDivSmallFrom(Len(x), 0, <<>>)

\* ------------------------------------------------------------------------
\* Floats: the IEEE 754 binary64 numbers of Python, rounded to nearest, ties
\* to even. A finite float is (-1)^s * m * 2^e with m < 2^53 and e >= -1074;
\* m has 53 bits unless e = -1074. The sign of a zero is not kept: nothing
\* in the program reads it.
\* ------------------------------------------------------------------------

MantBits == 53
ExpMin == 0 - 1074
ExpMax == 971

Zero == [k |-> "fin", s |-> 0, m |-> <<>>, e |-> ExpMin]
Inf(s) == [k |-> "inf", s |-> s, m |-> <<>>, e |-> 0]
NaN == [k |-> "nan", s |-> 0, m |-> <<>>, e |-> 0]

IsNaN(a) == a.k = "nan"
IsInf(a) == a.k = "inf"
IsFinite(a) == a.k = "fin"

\* the finite float (-1)^s * q * 2^t, q < 2^53, or the infinity it overflows to
Pack(s, q, t) ==
    IF q = <<>> THEN Zero
    ELSE IF t > ExpMax THEN Inf(s)
    ELSE [k |-> "fin", s |-> s, m |-> q, e |-> t]

\* a carry out of the 53 bits moves the exponent up
Renorm(s, q, t) ==
    IF BNBits(q) > MantBits THEN Pack(s, BNShr(q, 1), t + 1) ELSE Pack(s, q, t)

\* m rounded to a multiple of 2^sh, sh > 0, to nearest and ties to even: q is
\* m without its sh lowest bits, the highest of these is the half
RoundNearest(s, m, sticky, q, t, sh) ==
    IF /\ (LimbAt(m, ((sh - 1) \div LimbBits) + 1) \div 2^((sh - 1) % LimbBits)) % 2 = 1
       /\ \/ sticky
          \/ \E i \in 1..((sh - 1) \div LimbBits) : LimbAt(m, i) # 0
          \/ LimbAt(m, ((sh - 1) \div LimbBits) + 1) % 2^((sh - 1) % LimbBits) # 0
          \/ LimbAt(q, 1) % 2 = 1
    THEN Renorm(s, BNAdd(q, <<1>>), t)
    ELSE Pack(s, q, t)

\* the float nearest to (-1)^s * (m + f) * 2^e, where 0 <= f < 1 and
\* sticky tells whether f > 0. The result has exponent t: the bits of m
\* below it are rounded away.
RoundPack(s, m, e, sticky) ==
    LET t == IF e + BNBits(m) - MantBits >= ExpMin THEN e + BNBits(m) - MantBits
             ELSE ExpMin
    IN  IF m = <<>> THEN Zero
        ELSE IF t <= e
        THEN IF e + BNBits(m) > ExpMax + MantBits THEN Inf(s)
             ELSE [k |-> "fin", s |-> s, m |-> BNShl(m, e - t), e |-> t]
        ELSE RoundNearest(s, m, sticky, BNShr(m, t - e), t, t - e)

\* float(n) for an integer n
Int2Dec(n) ==
    RoundPack(IF n >= 0 THEN 0 ELSE 1, BNFromNat(IF n >= 0 THEN n ELSE 0 - n), 0, FALSE)

Neg(a) == IF IsNaN(a) \/ a = Zero THEN a ELSE [a EXCEPT !.s = 1 - a.s]

\* a < b
Lt(a, b) ==
    LET \* |x| < |y| for finite x and y
        MagLt(x, y) == IF x.e # y.e THEN x.e < y.e ELSE BNLt(x.m, y.m)
    IN  IF IsNaN(a) \/ IsNaN(b) THEN FALSE
        ELSE IF IsInf(a) THEN a.s = 1 /\ ~(IsInf(b) /\ b.s = 1)
        ELSE IF IsInf(b) THEN b.s = 0
        ELSE IF a.s # b.s THEN a.s = 1
        ELSE IF a.s = 0 THEN MagLt(a, b) ELSE MagLt(b, a)

\* a == b
Eq(a, b) == ~IsNaN(a) /\ ~IsNaN(b) /\ a = b

Leq(a, b) == Lt(a, b) \/ Eq(a, b)
Gt(a, b) == Lt(b, a)

\* min(a, b) and max(a, b) of Python: the first argument unless the second
\* is smaller (larger)
MinDec(a, b) == IF Lt(b, a) THEN b ELSE a
MaxDec(a, b) == IF Gt(b, a) THEN b ELSE a

\* a + b. For finite a and b, hi is the one with the larger exponent; its
\* significand is aligned with lo's, or, when lo is less than 2^-11 units
\* of hi, lo only decides the rounding.
Add(a, b) ==
    LET hi == IF a.e >= b.e THEN a ELSE b
        lo == IF a.e >= b.e THEN b ELSE a
        near == hi.e - lo.e <= 64
        Sum(u) ==
            IF ~near THEN [s |-> hi.s, m |-> IF hi.s = lo.s THEN u ELSE BNSub(u, <<1>>)]
            ELSE IF hi.s = lo.s THEN [s |-> hi.s, m |-> BNAdd(u, lo.m)]
            ELSE IF BNLt(u, lo.m) THEN [s |-> lo.s, m |-> BNSub(lo.m, u)]
            ELSE [s |-> hi.s, m |-> BNSub(u, lo.m)]
    IN  IF IsNaN(a) \/ IsNaN(b) THEN NaN
        ELSE IF IsInf(a) THEN (IF IsInf(b) /\ a.s # b.s THEN NaN ELSE a)
        ELSE IF IsInf(b) THEN b
        ELSE IF lo.m = <<>> THEN hi
        ELSE IF hi.m = <<>> THEN lo
        ELSE RoundPack(Sum(BNShl(hi.m, IF near THEN hi.e - lo.e ELSE 3)).s,
                       Sum(BNShl(hi.m, IF near THEN hi.e - lo.e ELSE 3)).m,
                       IF near THEN lo.e ELSE hi.e - 3, ~near)

\* a - b
Sub(a, b) == Add(a, Neg(b))

\* a * b. BNMul is x * y for y of at most 4 limbs: a column holds at most
\* four 28-bit products.
Mul(a, b) ==
    LET RECURSIVE BNCarry(_, _, _)
        BNCarry(cols, i, c) ==
            IF i > Len(cols) THEN BNFromNat(c)
            ELSE <<(cols[i] + c) % Limb>> \o BNCarry(cols, i + 1, (cols[i] + c) \div Limb)
        BNMul(x, y) ==
            IF x = <<>> \/ y = <<>> THEN <<>>
            ELSE BNTrim(BNCarry([k \in 1..(Len(x) + 3) |->
                                    LimbAt(x, k) * LimbAt(y, 1)
                                  + LimbAt(x, k - 1) * LimbAt(y, 2)
                                  + LimbAt(x, k - 2) * LimbAt(y, 3)
                                  + LimbAt(x, k - 3) * LimbAt(y, 4)],
                                1, 0))
    IN  IF IsNaN(a) \/ IsNaN(b) THEN NaN
        ELSE IF IsInf(a) \/ IsInf(b)
        THEN IF (IsFinite(a) /\ a.m = <<>>) \/ (IsFinite(b) /\ b.m = <<>>) THEN NaN
             ELSE Inf((a.s + b.s) % 2)
        ELSE RoundPack((a.s + b.s) % 2, BNMul(a.m, b.m), a.e + b.e, FALSE)

\* a * n for an integer n
MulInt(a, n) == Mul(a, Int2Dec(n))

\* a / n for an integer 0 < n < 2^17
DivInt(a, n) ==
    IF ~IsFinite(a) THEN a
    ELSE LET d == BNDivSmall(BNShl(a.m, 70), n)
         IN  RoundPack(a.s, d.q, a.e - 70, d.r # 0)

\* ------------------------------------------------------------------------
\* Decimal numerals: the float nearest to (-1)^s * m * 10^x
\* ------------------------------------------------------------------------

\* 10^x = 5^x * 2^x: the power of 5 is multiplied or divided out of m, the
\* power of 2 goes into the exponent
FromDecimal(s, m, x) ==
    LET \* n * 5^k
        RECURSIVE BNTimesPow5(_, _)
        BNTimesPow5(n, k) ==
            IF k = 0 \/ n = <<>> THEN n
            ELSE IF k >= 7 THEN BNTimesPow5(BNMulSmall(n, 78125, 0), k - 7)
            ELSE BNTimesPow5(BNMulSmall(n, 5, 0), k - 1)
        \* n \div 5^k, and whether a division left a remainder
        RECURSIVE BNOverPow5(_, _, _)
        BNOverPow5(n, k, sticky) ==
            IF k = 0 \/ n = <<>> THEN [q |-> n, sticky |-> sticky]
            ELSE LET d == BNDivSmall(n, IF k >= 7 THEN 78125 ELSE 5)
                 IN  IF d.r # 0 THEN BNOverPow5(d.q, IF k >= 7 THEN k - 7 ELSE k - 1, TRUE)
                     ELSE BNOverPow5(d.q, IF k >= 7 THEN k - 7 ELSE k - 1, sticky)
        \* the number of decimal digits of m is at most this
        DecDigitsMax == BNBits(m) \div 3 + 1
        \* for x < 0, m is shifted left so that the quotient has 64 bits or more
        sh == IF x >= 0 THEN 0 ELSE 64 + (7 * (0 - x)) \div 3
        d == IF x >= 0 THEN [q |-> BNTimesPow5(m, x), sticky |-> FALSE]
             ELSE BNOverPow5(BNShl(m, sh), 0 - x, FALSE)
    IN  IF m = <<>> THEN Zero
        ELSE IF x > 310 THEN Inf(s)
        ELSE IF x < 0 /\ DecDigitsMax + x < 0 - 330 THEN Zero
        ELSE RoundPack(s, d.q, x - sh, d.sticky)

\* the float of the decimal literal n / 10^k, n >= 0
Dec(n, k) == FromDecimal(0, BNFromNat(n), 0 - k)

\* ------------------------------------------------------------------------
\* Texts: what the user types into the entries
\* ------------------------------------------------------------------------

\* ord(c) for the ASCII characters the texts below are written with
Ord(c) ==
    LET Algarismos == <<"0", "1", "2", "3", "4", "5", "6", "7", "8", "9">>
        Minusculas ==
            <<"a", "b", "c", "d", "e", "f", "g", "h", "i", "j", "k", "l", "m",
              "n", "o", "p", "q", "r", "s", "t", "u", "v", "w", "x", "y", "z">>
    IN  CASE c = " " -> 32
          [] c = "+" -> 43
          [] c = "," -> 44
          [] c = "-" -> 45
          [] c = "." -> 46
          [] c = "E" -> 69
          [] c = "_" -> 95
          [] \E i \in 1..10 : Algarismos[i] = c -> 47 + CHOOSE i \in 1..10 : Algarismos[i] = c
          [] OTHER -> 96 + CHOOSE i \in 1..26 : Minusculas[i] = c

\* the text made of the ASCII characters s
Txt(s) == SubSeq([i \in 1..Len(s) |-> Ord(s[i])], 1, Len(s))

\* the text a user types for the number n: its decimal numeral
RECURSIVE Numeral(_)
Numeral(n) == IF n < 10 THEN <<48 + n>> ELSE Numeral(n \div 10) \o <<48 + (n % 10)>>

\* the characters with Unicode property Numeric_Type=Decimal: the digit zero
\* of every script, each followed by its digits one to nine
ZerosDecimais ==
    {48, 1632, 1776, 1984, 2406, 2534, 2662, 2790, 2918, 3046, 3174, 3302,
     3430, 3558, 3664, 3792, 3872, 4160, 4240, 6112, 6160, 6470, 6608, 6784,
     6800, 6992, 7088, 7232, 7248, 42528, 43216, 43264, 43472, 43504, 43600,
     44016, 65296, 66720, 68912, 69734, 69872, 69942, 70096, 70384, 70736,
     70864, 71248, 71360, 71472, 71904, 72016, 72784, 73040, 73120, 92768,
     92864, 93008, 120782, 120792, 120802, 120812, 120822, 123200, 123632,
     125264, 130032}

Decimais == UNION {z..(z + 9) : z \in ZerosDecimais}

\* the characters with Numeric_Type=Digit: superscripts, subscripts,
\* circled digits and the like
OutrosDigitos ==
    (178..179) \cup {185} \cup (4969..4977) \cup {6618} \cup {8304}
    \cup (8308..8313) \cup (8320..8329) \cup (9312..9320) \cup (9332..9340)
    \cup (9352..9360) \cup {9450} \cup (9461..9469) \cup {9471}
    \cup (10102..10110) \cup (10112..10120) \cup (10122..10130)
    \cup (68160..68163) \cup (69216..69224) \cup (69714..69722)
    \cup (127232..127242)

\* the characters c with c.isdigit()
Digits == Decimais \cup OutrosDigitos

\* the value of a decimal digit
DigitVal(c) == c - CHOOSE z \in ZerosDecimais : z <= c /\ c <= z + 9

\* s.isdigit(): not empty and digits only
IsDigit(s) == s # <<>> /\ \A i \in 1..Len(s) : s[i] \in Digits

\* s.replace(',', '.')
ReplaceComma(s) == SubSeq([i \in 1..Len(s) |-> IF s[i] = 44 THEN 46 ELSE s[i]], 1, Len(s))

\* what int() and float() make of a text before reading it: a space for
\* white space beyond ASCII, the ASCII digit for a decimal digit of any
\* script, '?' for every other character beyond ASCII
ParaAscii(s) ==
    LET \* the characters c with c.isspace()
        Espacos ==
            (9..13) \cup (28..32) \cup {133, 160, 5760} \cup (8192..8202)
            \cup {8232, 8233, 8239, 8287, 12288}
    IN
    SubSeq([i \in 1..Len(s) |->
               IF s[i] <= 127 THEN s[i]
               ELSE IF s[i] \in Espacos THEN 32
               ELSE IF s[i] \in Decimais THEN 48 + DigitVal(s[i])
               ELSE 63], 1, Len(s))

\* s without the white space at its ends
Strip(s) ==
    LET \* the white space int() and float() drop at both ends of the ASCII text
        EspacosAscii == (9..13) \cup {32}
        idx == {i \in 1..Len(s) : s[i] \notin EspacosAscii}
    IN  IF idx = {} THEN <<>>
        ELSE SubSeq(s, CHOOSE i \in idx : \A j \in idx : i <= j,
                       CHOOSE i \in idx : \A j \in idx : i >= j)

IsAsciiDigit(c) == c >= 48 /\ c <= 57

\* an underscore is allowed between two digits only
SublinhasOk(s) ==
    \A i \in 1..Len(s) :
        s[i] = 95 => /\ i > 1 /\ i < Len(s)
                     /\ IsAsciiDigit(s[i - 1]) /\ IsAsciiDigit(s[i + 1])

SemSublinhas(s) ==
    LET NaoSublinha(c) == c # 95
    IN  SelectSeq(s, NaoSublinha)

\* s without its sign
Unsigned(s) == IF s # <<>> /\ s[1] \in {43, 45} THEN SubSeq(s, 2, Len(s)) ELSE s

Negativo(s) == s # <<>> /\ s[1] = 45

AllDigits(s) == \A i \in 1..Len(s) : IsAsciiDigit(s[i])

\* Python integers have no largest value; the program compares the month
\* with 1 and 12 and takes years of four digits, so the value of a longer
\* numeral is cut off here
IntTeto == 100000000

\* the value of the ASCII digits s: of the digits from the first that is
\* not 0 on, and more than 9 of these are more than IntTeto
DigitsVal(s) ==
    LET RECURSIVE Ate(_)
        Ate(n) == IF n = 0 THEN 0 ELSE 10 * Ate(n - 1) + (s[n] - 48)
        naoZero == {i \in 1..Len(s) : s[i] # 48}
    IN  IF naoZero = {} THEN 0
        ELSE IF Len(s) - (CHOOSE i \in naoZero : \A j \in naoZero : i <= j) >= 9
        THEN IntTeto
        ELSE IF Ate(Len(s)) > IntTeto THEN IntTeto ELSE Ate(Len(s))

\* the digits of an integer numeral, after sign and white space
IntCorpo(s) == Unsigned(Strip(ParaAscii(s)))

\* sys.int_max_str_digits as the interpreter sets it: int() raises
\* ValueError for a numeral of more digits, leading zeros counted
int_max_str_digits == 4300

\* int(s) does not raise ValueError
IntOk(s) ==
    /\ SublinhasOk(IntCorpo(s))
    /\ IntCorpo(s) # <<>>
    /\ AllDigits(SemSublinhas(IntCorpo(s)))
    /\ Len(SemSublinhas(IntCorpo(s))) <= int_max_str_digits

\* int(s)
IntVal(s) ==
    IF Negativo(Strip(ParaAscii(s))) THEN 0 - DigitsVal(SemSublinhas(IntCorpo(s)))
    ELSE DigitsVal(SemSublinhas(IntCorpo(s)))

\* the digits s as a natural number, four digits at a time from the left:
\* acc is the number the digits before position i make
BNFromDigits(s) ==
    LET RECURSIVE De(_, _)
        De(i, acc) ==
            IF Len(acc) >= 0 /\ i > Len(s) THEN acc
            ELSE De(i + 4, BNMulSmall(acc, 10000, DigitsVal(SubSeq(s, i, i + 3))))
    IN  De((Len(s) % 4) + 1, BNFromNat(DigitsVal(SubSeq(s, 1, Len(s) % 4))))

\* the parts of a float numeral: white space and underscores dropped, then
\* sign, digits, '.', digits, and 'e' or 'E' with a signed exponent
FloatPartes(s) ==
    LET \* the number of digits of u from position i on: up to the first
        \* position that holds no digit
        DigitRun(u, i) ==
            LET fins == {j \in i..(Len(u) + 1) : j > Len(u) \/ ~IsAsciiDigit(u[j])}
            IN  (CHOOSE j \in fins : \A k \in fins : j <= k) - i
        \* u in lower case
        Lower(u) ==
            SubSeq([i \in 1..Len(u) |->
                       IF u[i] >= 65 /\ u[i] <= 90 THEN u[i] + 32 ELSE u[i]], 1, Len(u))
        Partes(a, u, ni, dot, nf) ==
            LET fim == IF dot THEN ni + 1 + nf ELSE ni
                x == SubSeq(u, fim + 2, Len(u))
            IN  [sublinhas |-> SublinhasOk(a),
                 neg |-> Negativo(a),
                 nome |-> Lower(u),
                 inteiros |-> SubSeq(u, 1, ni),
                 fracao |-> SubSeq(u, ni + 2, ni + 1 + nf),
                 temExp |-> fim < Len(u),
                 marca |-> IF fim < Len(u) THEN u[fim + 1] ELSE 0,
                 expNeg |-> Negativo(x),
                 expoente |-> Unsigned(x)]
        Fracao(a, u, ni, dot) ==
            Partes(a, u, ni, dot, IF dot THEN DigitRun(u, ni + 2) ELSE 0)
        Inteiros(a, u, ni) == Fracao(a, u, ni, ni < Len(u) /\ u[ni + 1] = 46)
        Corpo(a, u) == Inteiros(a, u, DigitRun(u, 1))
        Limpo(a) == Corpo(a, Unsigned(SemSublinhas(a)))
    IN  Limpo(Strip(ParaAscii(s)))

\* the names float() reads, in lower case
NomesInfinito == {Txt(<<"i", "n", "f">>), Txt(<<"i", "n", "f", "i", "n", "i", "t", "y">>)}
NomeNaN == Txt(<<"n", "a", "n">>)

\* the parts p are those of a numeral float() accepts
PartesOk(p) ==
    /\ p.sublinhas
    /\ \/ p.nome \in NomesInfinito \cup {NomeNaN}
       \/ /\ Len(p.inteiros) + Len(p.fracao) > 0
          /\ p.temExp => /\ p.marca \in {69, 101}
                         /\ p.expoente # <<>>
                         /\ AllDigits(p.expoente)

\* the float of the parts p: the nearest to digits * 10^exponent
PartesVal(p) ==
    LET sinal == IF p.neg THEN 1 ELSE 0
        x == IF ~p.temExp THEN 0
             ELSE IF p.expNeg THEN 0 - DigitsVal(p.expoente)
             ELSE DigitsVal(p.expoente)
    IN  IF p.nome = NomeNaN THEN NaN
        ELSE IF p.nome \in NomesInfinito THEN Inf(sinal)
        ELSE FromDecimal(sinal, BNFromDigits(p.inteiros \o p.fracao), x - Len(p.fracao))

\* float(s) does not raise ValueError
FloatOk(s) == PartesOk(FloatPartes(s))

\* float(s)
FloatVal(s) == PartesVal(FloatPartes(s))

\* ------------------------------------------------------------------------
\* Calendar: calendar.monthrange, datetime.date, count_uteis
\* ------------------------------------------------------------------------

\* monthrange(y, m) raises IllegalMonthError unless 1 <= m <= 12
MonthOk(m) == m \in 1..12

\* monthrange(y, m)[1]; the year 0 is a leap year to it
DaysInMonth(y, m) ==
    LET isleap == y % 4 = 0 /\ (y % 100 # 0 \/ y % 400 = 0)
        mdays == <<31, 28, 31, 30, 31, 30, 31, 31, 30, 31, 30, 31>>
    IN  mdays[m] + (IF m = 2 /\ isleap THEN 1 ELSE 0)

\* date(y, m, d).weekday(): Monday is 0; 1 January of the year 1 is a Monday
weekday(y, m, d) ==
    LET RECURSIVE DaysBeforeMonth(_)
        DaysBeforeMonth(k) ==
            IF k = 1 THEN 0 ELSE DaysBeforeMonth(k - 1) + DaysInMonth(y, k - 1)
        DaysBeforeYear ==
            (y - 1) * 365 + ((y - 1) \div 4) - ((y - 1) \div 100) + ((y - 1) \div 400)
    IN  (DaysBeforeYear + DaysBeforeMonth(m) + d + 6) % 7

\* the last year of datetime.date
MAXYEAR == 9999

\* what a call gives: ok is FALSE when it raises, v is the value otherwise
Lido(ok, v) == [ok |-> ok, v |-> v]

\* count_uteis(y, m, start): the Monday-to-Friday days from start to the
\* last day of the month. date(y, m, start) raises ValueError for a date
\* that does not exist, and the step past 31 December 9999 that ends the
\* loop raises OverflowError.
count_uteis(y, m, start) ==
    LET \* date(y, m, start) raises ValueError unless this holds
        DateOk == /\ y \in 1..MAXYEAR
                  /\ MonthOk(m)
                  /\ start \in 1..DaysInMonth(y, m)
    IN  IF ~DateOk \/ (y = MAXYEAR /\ m = 12) THEN Lido(FALSE, 0)
        ELSE Lido(TRUE, Cardinality({d \in start..DaysInMonth(y, m) : weekday(y, m, d) < 5}))

\* ------------------------------------------------------------------------
\* Rate functions: calc_inss, calc_irrf, val_hora, calc_h_extra
\* ------------------------------------------------------------------------

INSS_FAIXAS ==
    << [faixa |-> Dec(151800, 2), pct |-> Dec(75, 3), ded |-> Dec(0, 2)],
       [faixa |-> Dec(279388, 2), pct |-> Dec(9, 2),  ded |-> Dec(2277, 2)],
       [faixa |-> Dec(419083, 2), pct |-> Dec(12, 2), ded |-> Dec(10659, 2)],
       [faixa |-> Dec(815741, 2), pct |-> Dec(14, 2), ded |-> Dec(19040, 2)] >>

INSS_TETO == Dec(815741, 2)

\* faulty variant: a row is selected by sal >= faixa instead of sal > faixa
RECURSIVE InssScanNaoEstrito(_, _, _)
InssScanNaoEstrito(faixas, sal, i) ==
    IF i = 0 THEN Mul(sal, faixas[1].pct)
    ELSE IF Leq(faixas[i].faixa, sal)
         THEN Sub(Mul(sal, faixas[i].pct), faixas[i].ded)
         ELSE InssScanNaoEstrito(faixas, sal, i - 1)

\* the loop over reversed(faixas): row i is tried, then row i - 1; after
\* the loop the first row's rate is applied without deduction
RECURSIVE InssScan(_, _, _)
InssScan(faixas, sal, i) ==
    IF i = 0 THEN Mul(sal, faixas[1].pct)
    ELSE IF Gt(sal, faixas[i].faixa)
         THEN Sub(Mul(sal, faixas[i].pct), faixas[i].ded)
         ELSE InssScan(faixas, sal, i - 1)

\* faulty variant: below the first threshold the deduction of the second row
\* is subtracted
calc_inss_deducao_errada(sal) ==
    LET Errada(faixas, s) ==
            IF Gt(s, faixas[1].faixa) THEN InssScan(faixas, s, Len(faixas))
            ELSE Sub(Mul(s, faixas[1].pct), faixas[2].ded)
    IN  Errada(INSS_FAIXAS, MinDec(sal, INSS_TETO))

\* faulty variant: the ceiling is not applied (sal = min(sal, INSS_TETO) left out)
calc_inss_sem_teto(sal) ==
    LET Faixas(faixas, s) == InssScan(faixas, s, Len(faixas))
    IN  Faixas(INSS_FAIXAS, sal)

\* sal = min(sal, INSS_TETO), then the loop over the table
calc_inss(sal) ==
    LET Faixas(faixas, s) == InssScan(faixas, s, Len(faixas))
    IN  Faixas(INSS_FAIXAS, MinDec(sal, INSS_TETO))

\* float("inf")
Infinito == Inf(0)

\* faulty variant: the deduction of the 15% row is the one of an older table
IRRF_TABELA_antiga ==
    << [faixa |-> Dec(242880, 2), pct |-> Dec(0, 2),   ded |-> Dec(0, 2)],
       [faixa |-> Dec(282665, 2), pct |-> Dec(75, 3),  ded |-> Dec(18216, 2)],
       [faixa |-> Dec(375105, 2), pct |-> Dec(15, 2),  ded |-> Dec(38144, 2)],
       [faixa |-> Dec(466468, 2), pct |-> Dec(225, 3), ded |-> Dec(67549, 2)],
       [faixa |-> Infinito,       pct |-> Dec(275, 3), ded |-> Dec(90873, 2)] >>

IRRF_TABELA ==
    << [faixa |-> Dec(242880, 2), pct |-> Dec(0, 2),   ded |-> Dec(0, 2)],
       [faixa |-> Dec(282665, 2), pct |-> Dec(75, 3),  ded |-> Dec(18216, 2)],
       [faixa |-> Dec(375105, 2), pct |-> Dec(15, 2),  ded |-> Dec(39416, 2)],
       [faixa |-> Dec(466468, 2), pct |-> Dec(225, 3), ded |-> Dec(67549, 2)],
       [faixa |-> Infinito,       pct |-> Dec(275, 3), ded |-> Dec(90873, 2)] >>

\* max(0, base * pct - ded) for one row of the table
IrrfFaixa(row, base) == MaxDec(Zero, Sub(Mul(base, row.pct), row.ded))

\* the loop over the table: the first row with base <= faixa decides; the
\* loop ends without one for nan only, and 0 is returned
RECURSIVE IrrfScan(_, _, _)
IrrfScan(tabela, base, i) ==
    IF i > Len(tabela) THEN Zero
    ELSE IF Leq(base, tabela[i].faixa) THEN IrrfFaixa(tabela[i], base)
         ELSE IrrfScan(tabela, base, i + 1)

calc_irrf(base) == IrrfScan(IRRF_TABELA, base, 1)

\* d / 8 if d else 0
val_hora(d) == IF d = Zero THEN Zero ELSE DivInt(d, 8)

\* vh * h * (1 + pct / 100)
calc_h_extra(vh, h, pct) == Mul(Mul(vh, h), Add(Int2Dec(1), DivInt(pct, 100)))

\* ------------------------------------------------------------------------
\* The form: the tk variables of Calculadora.__init__
\* ------------------------------------------------------------------------

vazio == <<>>
t_150_50 == Txt(<<"1", "5", "0", ",", "5", "0">>)
t_1_5 == Txt(<<"1", ",", "5">>)
t_abc == Txt(<<"a", "b", "c">>)
t_menos_1 == Txt(<<"-", "1">>)
\* the values the constructor (and limpar) gives the variables
FormInicial ==
    [tipo_contrato |-> "CLT", tipo_valor |-> "diario", tipo_calculo |-> "mes",
     valor |-> vazio, mes |-> vazio, ano |-> vazio,
     horas |-> vazio, percentual |-> vazio,
     paga_pensao |-> 0, tipo_pensao |-> "percent", valor_pensao |-> vazio,
     vr_fixo |-> 0, valor_vr_fixo |-> vazio, valor_vr |-> vazio,
     va_fixo |-> 0, valor_va_fixo |-> vazio, valor_va |-> vazio,
     vt_fixo |-> 0, valor_vt_fixo |-> vazio, vt_percentual |-> Numeral(6),
     atraso_horas |-> vazio, atraso_minutos |-> vazio, faltas |-> vazio]

\* ------------------------------------------------------------------------
\* Calculadora.calcular: reading the form
\* ------------------------------------------------------------------------

\* the value a cancelled dialog returns (None); no dialog answer is 0
Nenhum == 0

\* float(s), or the ValueError it raises
LerFloatCruSempre(s) ==
    LET p == FloatPartes(s)
    IN  IF PartesOk(p) THEN Lido(TRUE, PartesVal(p)) ELSE Lido(FALSE, Zero)

\* float(s.replace(',', '.'))
LerFloat(s) == LerFloatCruSempre(ReplaceComma(s))

\* float(s.replace(',', '.') if s else padrao)
LerFloatOu(s, padrao) == IF s = vazio THEN Lido(TRUE, padrao) ELSE LerFloat(s)

\* float(s if s else 0): the comma is not replaced
LerFloatCru(s) == IF s = vazio THEN Lido(TRUE, Zero) ELSE LerFloatCruSempre(s)

\* try: float(s.replace(',', '.'))  except: 0
LerFloatTry(s) == LerFloat(s).v

\* validate_vt_percent(P): the key validation of the transport percent entry
validate_vt_percent(P) ==
    \/ P = vazio
    \/ LET val == LerFloat(P)
       IN  val.ok /\ Leq(Zero, val.v) /\ Leq(val.v, Int2Dec(6))

\* typing P into the transport percent entry: a rejected edit leaves the text
DigitarVtPercent(antes, P) == IF validate_vt_percent(P) THEN P ELSE antes

\* the year test that opens calcular
AnoValido(f) == Len(f.ano) = 4 /\ IsDigit(f.ano)

\* int(mes), int(ano), float(valor), monthrange(ano, mes) raise nothing
PrologoOk(f) ==
    /\ IntOk(f.mes)
    /\ IntOk(f.ano)
    /\ FloatOk(ReplaceComma(f.valor))
    /\ MonthOk(IntVal(f.mes))

mes(f) == IntVal(f.mes)
ano(f) == IntVal(f.ano)
valor(f) == FloatVal(ReplaceComma(f.valor))
dias(f) == DaysInMonth(ano(f), mes(f))

\* faulty variant: the start-day dialog is opened for a monthly total as well
PedeDiaQualquerValor(f) == f.tipo_calculo # "mes"

\* the branch that opens the start-day dialog
PedeDia(f) == f.tipo_valor = "diario" /\ f.tipo_calculo # "mes"

\* faulty variant: the start day itself is not counted (off by one)
dias_calc_sem_dia_inicial(f, r) == IF PedeDia(f) THEN dias(f) - r.dia_ini ELSE dias(f)

\* r is the record of the dialog answers of the run
dias_calc(f, r) == IF PedeDia(f) THEN dias(f) - r.dia_ini + 1 ELSE dias(f)

salario(f, r) ==
    IF f.tipo_valor = "diario" THEN MulInt(valor(f), dias_calc(f, r)) ELSE valor(f)

\* faulty variant: the percent is deducted as if it were a fixed amount
pensao_sempre_fixa(f, sal) ==
    IF f.paga_pensao = 0 THEN Zero ELSE LerFloatTry(f.valor_pensao)

\* sal is salario
pensao(f, sal) ==
    IF f.paga_pensao = 0 THEN Zero
    ELSE IF f.tipo_pensao = "percent"
         THEN DivInt(Mul(sal, LerFloatTry(f.valor_pensao)), 100)
         ELSE LerFloatTry(f.valor_pensao)

\* ------------------------------------------------------------------------
\* Calculadora.calcular: the outcome of a run
\* ------------------------------------------------------------------------

Nada ==
    [kind |-> "nada", msg |-> "", recebimentos |-> <<>>, descontos |-> <<>>,
     total_recebimentos |-> Zero, total_descontos |-> Zero, liquido |-> Zero]

\* return without a popup (a dialog was cancelled)
Cancelado == [Nada EXCEPT !.kind = "cancelado"]

\* messagebox.showerror
Erro(msg) == [Nada EXCEPT !.kind = "erro", !.msg = msg]

\* mostrar_popup(recebimentos, descontos, total_recebimentos, total_descontos, liquido)
Holerite(rec, desc, tr, td) ==
    [kind |-> "holerite", msg |-> "", recebimentos |-> rec, descontos |-> desc,
     total_recebimentos |-> tr, total_descontos |-> td, liquido |-> Sub(tr, td)]

\* faulty variant: the entry is appended whatever its amount
SempreLancado(rotulo, x) == << <<rotulo, x>> >>

\* lista.append((rotulo, x)) if x > 0
SePositivo(rotulo, x) == IF Gt(x, Zero) THEN << <<rotulo, x>> >> ELSE <<>>

\* ------------------------------------------------------------------------
\* Calculadora.calcular: the CLT branch
\* ------------------------------------------------------------------------

\* if h_extras > 0 and perc_extra == 0: showerror, return
\* faulty variant: the test is left out
FaltaPercentualNunca(h_extras, perc_extra) == FALSE

FaltaPercentual(h_extras, perc_extra) == Gt(h_extras, Zero) /\ Eq(perc_extra, Zero)

\* the transport voucher; ok is FALSE when float(vt_percentual) raises
\* faulty variant: an empty percent field counts as 0 instead of 6
ValeTransporteSemPadrao(f, salario_bruto) ==
    IF f.vt_fixo # 0 THEN Lido(TRUE, LerFloatTry(f.valor_vt_fixo))
    ELSE LET vt_pct == LerFloatOu(f.vt_percentual, Zero)
         IN  Lido(vt_pct.ok,
                  DivInt(Mul(salario_bruto, MinDec(vt_pct.v, Int2Dec(6))), 100))

ValeTransporte(f, salario_bruto) ==
    IF f.vt_fixo # 0 THEN Lido(TRUE, LerFloatTry(f.valor_vt_fixo))
    ELSE LET vt_pct == LerFloatOu(f.vt_percentual, Int2Dec(6))
         IN  Lido(vt_pct.ok,
                  DivInt(Mul(salario_bruto,
                             IF Gt(vt_pct.v, Int2Dec(6)) THEN Int2Dec(6) ELSE vt_pct.v),
                         100))

\* the meal and food vouchers (the same code twice): vr * uteis * 0.2; ok
\* is FALSE when the float() of the daily value raises
\* faulty variant: the daily value is used whether or not the deduction is fixed
DescontoValeSempreProporcional(fixo, valor_fixo, valor_diario, uteis) ==
    LET vr == LerFloatOu(valor_diario, Zero)
    IN  Lido(vr.ok, Mul(MulInt(vr.v, uteis), Dec(2, 1)))

DescontoVale(fixo, valor_fixo, valor_diario, uteis) ==
    IF fixo # 0 THEN Lido(TRUE, LerFloatTry(valor_fixo))
    ELSE LET vr == LerFloatOu(valor_diario, Zero)
         IN  Lido(vr.ok, Mul(MulInt(vr.v, uteis), Dec(2, 1)))

\* total_descontos = inss + irrf + pensao + vt + desc_vr + desc_va + valor_atraso + valor_falta
\* faulty variant: the alimony is listed but not added
TotalDescontosCLTSemPensao(inss, irrf, pens, vt, desc_vr, desc_va, valor_atraso, valor_falta) ==
    Add(Add(Add(Add(Add(Add(inss, irrf), vt), desc_vr), desc_va), valor_atraso), valor_falta)

TotalDescontosCLT(inss, irrf, pens, vt, desc_vr, desc_va, valor_atraso, valor_falta) ==
    Add(Add(Add(Add(Add(Add(Add(inss, irrf), pens), vt), desc_vr), desc_va),
            valor_atraso), valor_falta)

\* the CLT branch from its first line to mostrar_popup; recebimentos and
\* descontos are local lists that start empty
\* Every step adds the variables it assigns to the ones assigned so far (e).
CalcCLT(f, r) ==
    LET lidos ==
            [val |-> valor(f), ndias |-> dias(f), ncalc |-> dias_calc(f, r),
             h_extras |-> LerFloatOu(f.horas, Zero),
             perc_extra |-> LerFloatOu(f.percentual, Zero),
             atraso_h |-> LerFloatCru(f.atraso_horas),
             atraso_m |-> LerFloatCru(f.atraso_minutos),
             faltas |-> LerFloatCru(f.faltas),
             uteis |-> count_uteis(ano(f), mes(f), 1)]
        Salario(e) ==
            [sal |-> IF f.tipo_valor = "diario" THEN MulInt(e.val, e.ncalc) ELSE e.val] @@ e
        Base(e) ==
            [pens |-> pensao(f, e.sal),
             v_h |-> val_hora(IF f.tipo_valor = "diario" THEN e.val
                              ELSE DivInt(e.sal, e.ncalc)),
             valor_falta |-> IF f.tipo_valor = "diario" THEN Mul(e.val, e.faltas.v)
                             ELSE Mul(DivInt(e.sal, e.ndias), e.faltas.v),
             desc_vr |-> DescontoVale(f.vr_fixo, f.valor_vr_fixo, f.valor_vr, e.uteis.v),
             desc_va |-> DescontoVale(f.va_fixo, f.valor_va_fixo, f.valor_va, e.uteis.v)]
            @@ e
        Extras(e) ==
            [val_h_extras |-> IF Gt(e.h_extras.v, Zero)
                              THEN calc_h_extra(e.v_h, e.h_extras.v, e.perc_extra.v)
                              ELSE Zero,
             valor_atraso |-> Mul(e.v_h, Add(e.atraso_h.v, DivInt(e.atraso_m.v, 60)))]
            @@ e
        Bruto(e) == [salario_bruto |-> Add(e.sal, e.val_h_extras)] @@ e
        Inss(e) ==
            [inss |-> calc_inss(e.salario_bruto),
             vt |-> ValeTransporte(f, e.salario_bruto)] @@ e
        Irrf(e) ==
            [irrf |-> LET base_irrf == Sub(e.salario_bruto, e.inss)
                      IN  calc_irrf(base_irrf)] @@ e
        Popup(e) ==
            IF ~e.h_extras.ok \/ ~e.perc_extra.ok THEN Erro("excecao")
            ELSE IF FaltaPercentual(e.h_extras.v, e.perc_extra.v) THEN Erro("percentual")
            ELSE IF \/ ~e.atraso_h.ok \/ ~e.atraso_m.ok \/ ~e.faltas.ok \/ ~e.vt.ok
                    \/ ~e.uteis.ok \/ ~e.desc_vr.ok \/ ~e.desc_va.ok
                 THEN Erro("excecao")
            ELSE Holerite(
                     << <<"Salario Bruto", e.salario_bruto>>,
                        <<"Salario Base", e.sal>> >>
                         \o SePositivo("Horas Extras", e.val_h_extras),
                     << <<"INSS", e.inss>>, <<"IRRF", e.irrf>> >>
                         \o SePositivo("Pensao Alimenticia", e.pens)
                         \o << <<"Vale Transporte", e.vt.v>> >>
                         \o SePositivo("Vale Refeicao", e.desc_vr.v)
                         \o SePositivo("Vale Alimentacao", e.desc_va.v)
                         \o SePositivo("Atraso", e.valor_atraso)
                         \o SePositivo("Faltas", e.valor_falta),
                     e.salario_bruto,
                     TotalDescontosCLT(e.inss, e.irrf, e.pens, e.vt.v, e.desc_vr.v,
                                       e.desc_va.v, e.valor_atraso, e.valor_falta))
    IN  Popup(Irrf(Inss(Bruto(Extras(Base(Salario(lidos)))))))

\* ------------------------------------------------------------------------
\* Calculadora.calcular: the PJ and MEI branches
\* ------------------------------------------------------------------------

\* total_descontos = irpj + csll + pis_cofins + iss + pensao
\* faulty variant: the ISS is listed but not added
TotalDescontosPJSemISS(irpj, csll, pis_cofins, iss, pens) ==
    Add(Add(Add(irpj, csll), pis_cofins), pens)

TotalDescontosPJ(irpj, csll, pis_cofins, iss, pens) ==
    Add(Add(Add(Add(irpj, csll), pis_cofins), iss), pens)

CalcPJ(f, r) ==
    LET Impostos(sal) ==
            [sal |-> sal, pens |-> pensao(f, sal),
             irpj |-> Mul(sal, Dec(15, 2)), csll |-> Mul(sal, Dec(9, 2)),
             pis_cofins |-> Mul(sal, Dec(65, 3)), iss |-> Mul(sal, Dec(35, 3))]
        Popup(e) ==
            Holerite(
                << <<"Faturamento", e.sal>> >>,
                << <<"IRPJ (15%)", e.irpj>>, <<"CSLL (9%)", e.csll>>,
                   <<"PIS/COFINS (6,5%)", e.pis_cofins>>,
                   <<"ISS (3,5%)", e.iss>> >>
                    \o SePositivo("Pensao Alimenticia", e.pens),
                e.sal,
                TotalDescontosPJ(e.irpj, e.csll, e.pis_cofins, e.iss, e.pens))
    IN  Popup(Impostos(salario(f, r)))

MEI_INSS == Dec(7590, 2)
MEI_ICMS == Dec(100, 2)
MEI_ISS == Dec(500, 2)

\* faulty variant: services (2) pay the goods tax instead of the services tax
DAS_servicos_icms(tipo_ativ) ==
    IF tipo_ativ = 1 THEN Add(MEI_INSS, MEI_ICMS)
    ELSE IF tipo_ativ = 2 THEN Add(MEI_INSS, MEI_ICMS)
    ELSE Add(Add(MEI_INSS, MEI_ICMS), MEI_ISS)

DAS(tipo_ativ) ==
    IF tipo_ativ = 1 THEN Add(MEI_INSS, MEI_ICMS)
    ELSE IF tipo_ativ = 2 THEN Add(MEI_INSS, MEI_ISS)
    ELSE Add(Add(MEI_INSS, MEI_ICMS), MEI_ISS)

\* the MEI branch after the activity dialog returned tipo_ativ (not None)
CalcMEI(f, r) ==
    LET Popup(sal, pens, das) ==
            Holerite(
                << <<"Faturamento", sal>> >>,
                << <<"DAS (mensal)", das>> >>
                    \o SePositivo("Pensao Alimenticia", pens),
                sal,
                Add(das, pens))
        Pensao(sal) == Popup(sal, pensao(f, sal), DAS(r.tipo_ativ))
    IN  Pensao(salario(f, r))
\* ------------------------------------------------------------------------
\* The forms a user fills in
\* ------------------------------------------------------------------------

\* at most this many presses of "Calcular" in a session
MaxCalculos == 2
\* a start day in the middle of the month
DiaMeio == 15

\* contract, kind of value, period and the three required entries
Nucleos(contratos, valores) ==
    [tipo_contrato : contratos, tipo_valor : {"diario", "total"},
     tipo_calculo : {"mes", "data"}, valor : valores, mes : {Numeral(4)}, ano : {Numeral(2025)}]

NucleoValido ==
    Nucleos({"CLT"}, {Numeral(100), Numeral(3000), Numeral(10000)}) \cup Nucleos({"PJ", "MEI"}, {Numeral(100), Numeral(10000)})

\* a monthly total, the cores below differ from it in one or two entries
NucleoTotal(contrato) ==
    [tipo_contrato |-> contrato, tipo_valor |-> "total", tipo_calculo |-> "mes",
     valor |-> Numeral(3000), mes |-> Numeral(4), ano |-> Numeral(2025)]

\* entries that are not plain digits and are read all the same, a value of
\* 0, February, and the years at the two ends of the calendar
NucleoVariado ==
    UNION {{[NucleoTotal(c) EXCEPT !.valor = Txt(<<"1", "e", "3">>)],
            [NucleoTotal(c) EXCEPT
                !.valor = Txt(<<" ", "+", "2", ",", "5", "E", "1", " ">>)],
            [NucleoTotal(c) EXCEPT !.valor = Txt(<<"1", "_", "0", "0", "0">>)],
            [NucleoTotal(c) EXCEPT !.valor = Numeral(0)],
            [NucleoTotal(c) EXCEPT !.mes = Txt(<<" ", "4">>)],
            [NucleoTotal(c) EXCEPT !.mes = Numeral(2)],
            \* "2025" in Arabic-Indic digits
            [NucleoTotal(c) EXCEPT !.ano = <<1634, 1632, 1634, 1637>>],
            [NucleoTotal(c) EXCEPT !.ano = Txt(<<"0", "0", "0", "0">>)],
            [NucleoTotal(c) EXCEPT !.ano = Numeral(9999), !.mes = Numeral(12)]} : c \in {"CLT", "PJ"}}

\* one of valor, mes, ano is not what calcular needs; the last year is four
\* superscript twos: digits to str.isdigit(), no number to int()
NucleoInvalido ==
    UNION {{[n EXCEPT !.valor = t_abc], [n EXCEPT !.mes = Numeral(13)], [n EXCEPT !.ano = Numeral(25)],
            [n EXCEPT !.ano = <<178, 178, 178, 178>>]} :
           n \in {x \in Nucleos({"CLT", "MEI"}, {Numeral(100)}) : x.tipo_valor = "diario"}}

\* what is tried in each optional group of entries. The transport percent
\* entry starts as "6"; the user types 3, 8 or clears it. -1 absences are
\* read like any other number.
Grupos ==
    [he |-> {[horas |-> vazio, percentual |-> vazio],
             [horas |-> Numeral(10), percentual |-> Numeral(50)],
             [horas |-> Numeral(10), percentual |-> vazio],
             [horas |-> Numeral(10), percentual |-> Numeral(0)]},
     pen |-> {[paga_pensao |-> 0, tipo_pensao |-> "percent", valor_pensao |-> vazio],
              [paga_pensao |-> 1, tipo_pensao |-> "percent", valor_pensao |-> Numeral(10)],
              [paga_pensao |-> 1, tipo_pensao |-> "fix", valor_pensao |-> Numeral(300)],
              [paga_pensao |-> 1, tipo_pensao |-> "fix", valor_pensao |-> t_abc]},
     vr |-> {[fixo |-> 0, valor_fixo |-> vazio, valor |-> vazio],
             [fixo |-> 0, valor_fixo |-> vazio, valor |-> Numeral(20)],
             [fixo |-> 1, valor_fixo |-> t_150_50, valor |-> Numeral(20)],
             [fixo |-> 1, valor_fixo |-> vazio, valor |-> Numeral(20)]},
     va |-> {[fixo |-> 0, valor_fixo |-> vazio, valor |-> vazio],
             [fixo |-> 0, valor_fixo |-> vazio, valor |-> Numeral(15)],
             [fixo |-> 1, valor_fixo |-> Numeral(120), valor |-> Numeral(15)]},
     vt |-> {[fixo |-> 0, valor_fixo |-> vazio,
              percentual |-> DigitarVtPercent(Numeral(6), z)] :
                z \in {Numeral(6), Numeral(3), Numeral(8), vazio}}
            \cup {[fixo |-> 1, valor_fixo |-> Numeral(200), percentual |-> Numeral(6)],
                  [fixo |-> 1, valor_fixo |-> Numeral(200), percentual |-> Numeral(3)],
                  [fixo |-> 1, valor_fixo |-> vazio, percentual |-> Numeral(6)]},
     atr |-> {[horas |-> vazio, minutos |-> vazio],
              [horas |-> Numeral(2), minutos |-> Numeral(30)],
              [horas |-> t_1_5, minutos |-> vazio]},
     fal |-> {vazio, Numeral(2), t_1_5, t_menos_1}]

\* every optional group filled in at once
ExtrasCheios ==
    [he |-> [horas |-> Numeral(10), percentual |-> Numeral(50)],
     pen |-> [paga_pensao |-> 1, tipo_pensao |-> "percent", valor_pensao |-> Numeral(10)],
     vr |-> [fixo |-> 0, valor_fixo |-> vazio, valor |-> Numeral(20)],
     va |-> [fixo |-> 0, valor_fixo |-> vazio, valor |-> Numeral(15)],
     vt |-> [fixo |-> 1, valor_fixo |-> Numeral(200), percentual |-> Numeral(6)],
     atr |-> [horas |-> Numeral(2), minutos |-> Numeral(30)],
     fal |-> Numeral(2)]

ExtrasVazios ==
    [he |-> [horas |-> vazio, percentual |-> vazio],
     pen |-> [paga_pensao |-> 0, tipo_pensao |-> "percent", valor_pensao |-> vazio],
     vr |-> [fixo |-> 0, valor_fixo |-> vazio, valor |-> vazio],
     va |-> [fixo |-> 0, valor_fixo |-> vazio, valor |-> vazio],
     vt |-> [fixo |-> 0, valor_fixo |-> vazio, percentual |-> Numeral(6)],
     atr |-> [horas |-> vazio, minutos |-> vazio],
     fal |-> vazio]

\* fixed transport and meal deductions, the daily meal value typed as well
ExtrasFixos ==
    [ExtrasVazios EXCEPT
        !.vt = [fixo |-> 1, valor_fixo |-> Numeral(200), percentual |-> Numeral(6)],
        !.vr = [fixo |-> 1, valor_fixo |-> t_150_50, valor |-> Numeral(20)]]

\* one optional group filled in, the others as the constructor leaves them
ExtrasUmGrupo ==
    UNION {{[ExtrasVazios EXCEPT ![k] = g] : g \in Grupos[k]} : k \in DOMAIN Grupos}

\* the CLT-only widgets are hidden for PJ and MEI (atualizar_campos): they
\* are empty, or hold what was typed while CLT was selected
ExtrasOutros ==
    {[ExtrasVazios EXCEPT !.pen = g] : g \in Grupos.pen} \cup {ExtrasCheios}

\* with a start day asked for, fewer of the optional groups are tried
ExtrasComDia ==
    {ExtrasVazios, ExtrasCheios, ExtrasFixos,
     [ExtrasVazios EXCEPT !.he = [horas |-> Numeral(10), percentual |-> Numeral(50)]],
     [ExtrasVazios EXCEPT !.he = [horas |-> Numeral(10), percentual |-> vazio]],
     [ExtrasVazios EXCEPT !.vr = [fixo |-> 0, valor_fixo |-> vazio, valor |-> Numeral(20)]],
     [ExtrasVazios EXCEPT !.fal = Numeral(2)]}

ExtrasDe(n) ==
    IF n \notin NucleoValido THEN {ExtrasVazios, ExtrasCheios}
    ELSE IF n.tipo_contrato = "CLT"
    THEN (IF PedeDia(n) THEN ExtrasComDia
          ELSE ExtrasUmGrupo \cup {ExtrasCheios, ExtrasFixos})
    ELSE IF n.tipo_contrato = "MEI" /\ PedeDia(n)
    THEN {ExtrasVazios, [ExtrasVazios EXCEPT !.pen =
             [paga_pensao |-> 1, tipo_pensao |-> "fix", valor_pensao |-> Numeral(300)]]}
    ELSE ExtrasOutros

MontarForm(n, x) ==
    [tipo_contrato |-> n.tipo_contrato, tipo_valor |-> n.tipo_valor,
     tipo_calculo |-> n.tipo_calculo, valor |-> n.valor, mes |-> n.mes, ano |-> n.ano,
     horas |-> x.he.horas, percentual |-> x.he.percentual,
     paga_pensao |-> x.pen.paga_pensao, tipo_pensao |-> x.pen.tipo_pensao,
     valor_pensao |-> x.pen.valor_pensao,
     vr_fixo |-> x.vr.fixo, valor_vr_fixo |-> x.vr.valor_fixo, valor_vr |-> x.vr.valor,
     va_fixo |-> x.va.fixo, valor_va_fixo |-> x.va.valor_fixo, valor_va |-> x.va.valor,
     vt_fixo |-> x.vt.fixo, valor_vt_fixo |-> x.vt.valor_fixo,
     vt_percentual |-> x.vt.percentual,
     atraso_horas |-> x.atr.horas, atraso_minutos |-> x.atr.minutos, faltas |-> x.fal]

Formularios ==
    UNION {{MontarForm(n, x) : x \in ExtrasDe(n)} :
           n \in NucleoValido \cup NucleoVariado \cup NucleoInvalido}

\* ------------------------------------------------------------------------
\* The state machine
\* ------------------------------------------------------------------------

VARIABLES
    form,       \* the tk variables of the form
    pc,         \* "idle", or where calcular waits: "dia_ini", "mei", "popup"
    run,        \* the current or last run of calcular: the form it read,
                \* the dialog answers, the outcome
    perguntas,  \* the dialogs the current or last run opened, in order
    rodadas,    \* how many times "Calcular" was pressed
    probe       \* arguments and results of a rate function applied on its own

vars == <<form, pc, run, perguntas, rodadas, probe>>

RespInicial == [dia_ini |-> Nenhum, tipo_ativ |-> Nenhum]

RunInicial == [form |-> FormInicial, resp |-> RespInicial, out |-> Nada]

Init ==
    /\ form = FormInicial
    /\ pc = "idle"
    /\ run = RunInicial
    /\ perguntas = <<>>
    /\ rodadas = 0
    /\ probe = [fn |-> "none", a |-> Zero, b |-> Zero, ra |-> Zero, rb |-> Zero,
                rc |-> Zero]

\* the user fills in the form before the first calculation
Preencher ==
    /\ pc = "idle"
    /\ rodadas = 0
    /\ form = FormInicial
    /\ form' \in Formularios
    /\ UNCHANGED <<pc, run, perguntas, rodadas, probe>>

\* the entries stay editable: the user retypes the amount as 100 between
\* two calculations
Editar ==
    /\ pc = "idle"
    /\ rodadas >= 1
    /\ \E texto \in {Numeral(100)} :
          /\ form.valor # texto
          /\ form' = [form EXCEPT !.valor = texto]
    /\ UNCHANGED <<pc, run, perguntas, rodadas, probe>>

\* the "Limpar" button: every variable of the form gets the value the
\* constructor gave it
limpar ==
    /\ pc = "idle"
    /\ form # FormInicial
    /\ form' = FormInicial
    /\ UNCHANGED <<pc, run, perguntas, rodadas, probe>>

\* if dia_ini is None / if tipo_ativ is None
\* faulty variant: the answer of a cancelled dialog is used like any other
CancelouNunca(resposta) == FALSE

Cancelou(resposta) == resposta = Nenhum

\* the end of calcular with outcome o: the popup is shown for a pay slip
Terminar(r, o, perg) ==
    /\ run' = [form |-> form, resp |-> r, out |-> o]
    /\ pc' = IF o.kind = "holerite" THEN "popup" ELSE "idle"
    /\ perguntas' = perg

\* calcular from "Ajuste de pensao" on, the answers so far being r
Prosseguir(r, perg) ==
    IF form.tipo_contrato = "CLT"
    THEN Terminar(r, CalcCLT(form, r), perg)
    ELSE IF form.tipo_contrato = "PJ"
    THEN Terminar(r, CalcPJ(form, r), perg)
    ELSE /\ run' = [form |-> form, resp |-> r, out |-> Nada]
         /\ pc' = "mei"
         /\ perguntas' = Append(perg, "mei")

\* the "Calcular" button: calcular up to its first dialog or to its end
calcular ==
    /\ pc = "idle"
    /\ rodadas < MaxCalculos
    /\ rodadas' = rodadas + 1
    /\ IF ~AnoValido(form) THEN Terminar(RespInicial, Erro("ano"), <<>>)
       ELSE IF ~PrologoOk(form) THEN Terminar(RespInicial, Erro("excecao"), <<>>)
       ELSE IF PedeDia(form)
            THEN /\ run' = [form |-> form, resp |-> RespInicial, out |-> Nada]
                 /\ pc' = "dia_ini"
                 /\ perguntas' = <<"dia_ini">>
            ELSE Prosseguir(RespInicial, <<>>)
    /\ UNCHANGED <<form, probe>>

\* the answers tried for simpledialog.askinteger(minvalue=1, maxvalue=dias)
RespostasDia(f) == {Nenhum, 1, DiaMeio, dias(f)}

\* the start-day dialog returns dia_ini
ResponderDia ==
    /\ pc = "dia_ini"
    /\ \E dia_ini \in RespostasDia(form) :
          IF Cancelou(dia_ini) THEN Terminar(run.resp, Cancelado, perguntas)
          ELSE Prosseguir([run.resp EXCEPT !.dia_ini = dia_ini], perguntas)
    /\ UNCHANGED <<form, rodadas, probe>>

\* MEIPopup(self).result is tipo_ativ
ResponderMEI ==
    /\ pc = "mei"
    /\ \E tipo_ativ \in {Nenhum, 1, 2, 3} :
          IF Cancelou(tipo_ativ) THEN Terminar(run.resp, Cancelado, perguntas)
          ELSE LET r == [run.resp EXCEPT !.tipo_ativ = tipo_ativ]
               IN  Terminar(r, CalcMEI(form, r), perguntas)
    /\ UNCHANGED <<form, rodadas, probe>>

\* the "Fechar" button of the result popup
FecharPopup ==
    /\ pc = "popup"
    /\ pc' = "idle"
    /\ UNCHANGED <<form, run, perguntas, rodadas, probe>>

Next ==
    \/ Preencher
    \/ Editar
    \/ limpar
    \/ calcular
    \/ ResponderDia
    \/ ResponderMEI
    \/ FecharPopup

Spec == Init /\ [][Next]_vars

\* ------------------------------------------------------------------------
\* The rate functions applied on their own
\* ------------------------------------------------------------------------

\* cents tried on either side of every table threshold
JanelaCentavos == 2
\* the grid 0, 500, 1000, ... has this many steps
GradePassos == 18

Grade == {Int2Dec(500 * i) : i \in 0..GradePassos}

\* the float next above a, for a normal a > 0
Acima(a) == [a EXCEPT !.m = BNAdd(a.m, <<1>>)]

\* the amounts within a few cents of the threshold t, and the floats next
\* to it, above and below (t is no power of two)
AoRedor(t) ==
    {Add(t, DivInt(Int2Dec(c), 100)) : c \in (0 - JanelaCentavos)..JanelaCentavos}
    \cup {Acima(t), [t EXCEPT !.m = BNSub(t.m, <<1>>)]}

AmostrasInss == Grade \cup UNION {AoRedor(INSS_FAIXAS[i].faixa) : i \in 1..Len(INSS_FAIXAS)}

AmostrasIrrf ==
    Grade \cup UNION {AoRedor(IRRF_TABELA[i].faixa) : i \in 1..(Len(IRRF_TABELA) - 1)}

\* calc_inss(a), calc_inss(b) and calc_inss(INSS_TETO) for a <= b
ProbeInss ==
    /\ probe.fn = "none"
    /\ \E a \in AmostrasInss, b \in AmostrasInss :
          /\ Leq(a, b)
          /\ probe' = [fn |-> "inss", a |-> a, b |-> b, ra |-> calc_inss(a),
                       rb |-> calc_inss(b), rc |-> calc_inss(INSS_TETO)]
    /\ UNCHANGED <<form, pc, run, perguntas, rodadas>>

SpecInss == Init /\ [][ProbeInss]_vars

\* calc_irrf(a) and calc_irrf(b) for a <= b
ProbeIrrf ==
    /\ probe.fn = "none"
    /\ \E a \in AmostrasIrrf, b \in AmostrasIrrf :
          /\ Leq(a, b)
          /\ probe' = [fn |-> "irrf", a |-> a, b |-> b, ra |-> calc_irrf(a),
                       rb |-> calc_irrf(b), rc |-> Zero]
    /\ UNCHANGED <<form, pc, run, perguntas, rodadas>>

SpecIrrf == Init /\ [][ProbeIrrf]_vars


\* ------------------------------------------------------------------------
\* Properties
\* ------------------------------------------------------------------------

\* calcular is not waiting in a dialog and has run at least once
Terminou == rodadas >= 1 /\ pc \in {"idle", "popup"}

TemHolerite == Terminou /\ run.out.kind = "holerite"

\* the amount listed under a label, 0 when the label is not listed
Lancado(lista, rotulo) ==
    IF \E k \in 1..Len(lista) : lista[k][1] = rotulo
    THEN lista[CHOOSE k \in 1..Len(lista) : lista[k][1] = rotulo][2]
    ELSE Zero

Rotulos(lista) == [k \in 1..Len(lista) |-> lista[k][1]]

\* the amounts of the first n entries added up in the order of the list
SomaLista(lista) ==
    LET RECURSIVE SomaAte(_)
        SomaAte(n) == IF n = 0 THEN Zero ELSE Add(SomaAte(n - 1), lista[n][2])
    IN  SomaAte(Len(lista))

\* |a| for a finite a
Modulo(a) == [a EXCEPT !.s = 0]

\* the amounts are shown with two decimals (formatar)
Centavo == Dec(1, 2)

\* two amounts agree to rounding: they differ by at most 1e-9 of the larger
\* one (of 1 for amounts below 1)
Tolerancia == Dec(1, 9)

Perto(a, b) ==
    /\ IsFinite(a)
    /\ IsFinite(b)
    /\ Leq(Modulo(Sub(a, b)),
           Mul(Tolerancia, MaxDec(Int2Dec(1), MaxDec(Modulo(a), Modulo(b)))))

\* overtime hours given (> 0) with a percent that is 0 or empty
HorasSemPercentual(f) ==
    /\ LerFloatOu(f.horas, Zero).ok
    /\ Gt(LerFloatOu(f.horas, Zero).v, Zero)
    /\ LerFloatOu(f.percentual, Zero).ok
    /\ Eq(LerFloatOu(f.percentual, Zero).v, Zero)

\* C1 as stated: in the CLT pipeline a run with overtime hours > 0 and
\* overtime percent 0 (or empty) always ends in an error, whatever the other
\* inputs and answers are.
C1_SempreErro ==
    (Terminou /\ run.form.tipo_contrato = "CLT" /\ HorasSemPercentual(run.form))
        => run.out.kind = "erro"

\* C1 amended: in the CLT pipeline a run with overtime hours > 0 and overtime
\* percent 0 (or empty) never shows a pay slip; it ends in an error (the
\* overtime-percent error when year, month and base value are well formed),
\* unless the start-day dialog, which is opened before the overtime test, was
\* cancelled: then the run ends cancelled, with no error.
C1_SemHolerite ==
    (Terminou /\ run.form.tipo_contrato = "CLT" /\ HorasSemPercentual(run.form))
        => /\ pc # "popup"
           /\ run.out.kind \in {"erro", "cancelado"}
           /\ run.out.kind = "cancelado"
                 => /\ PedeDia(run.form)
                    /\ perguntas = <<"dia_ini">>
                    /\ run.resp.dia_ini = Nenhum
           /\ (run.out.kind = "erro" /\ AnoValido(run.form) /\ PrologoOk(run.form))
                 => run.out.msg = "percentual"

\* the overtime error is reported after the start-day dialog was answered
C1_Witness ==
    /\ Terminou /\ run.form.tipo_contrato = "CLT" /\ HorasSemPercentual(run.form)
    /\ run.form.percentual = vazio
    /\ run.resp.dia_ini = DiaMeio
    /\ run.out = Erro("percentual")

DiaCancelado ==
    /\ \E k \in 1..Len(perguntas) : perguntas[k] = "dia_ini"
    /\ pc # "dia_ini"
    /\ run.resp.dia_ini = Nenhum

MeiCancelado ==
    /\ \E k \in 1..Len(perguntas) : perguntas[k] = "mei"
    /\ pc # "mei"
    /\ run.resp.tipo_ativ = Nenhum

\* C2: when the start-day dialog or the MEI activity dialog is cancelled the
\* run is over at once: no pay slip, no error, nothing else was asked (after
\* a cancelled start-day dialog the MEI dialog is not opened).
C2_CancelamentoAborta ==
    (DiaCancelado \/ MeiCancelado)
        => /\ pc = "idle"
           /\ run.out = Cancelado
           /\ DiaCancelado => perguntas = <<"dia_ini">>

\* the start day was given, then the MEI dialog was cancelled
C2_Witness ==
    /\ MeiCancelado
    /\ perguntas = <<"dia_ini", "mei">>
    /\ run.resp.dia_ini = DiaMeio
    /\ run.out = Cancelado
    /\ pc = "idle"

\* the transport percent calcular reads: 6 when the field is empty
PercentualVT(f) == LerFloatOu(f.vt_percentual, Int2Dec(6)).v

\* C3: on a CLT pay slip with the transport voucher in proportional mode the
\* transport deduction is gross pay * min(percent, 6) / 100, the percent being
\* 6 when the field is empty; it is never above 6% of gross pay. The entry
\* accepts no text above 6 (validate_vt_percent), so the cap is also stated of
\* the computation itself: with 8 or 10 in the variable it deducts 6% of the
\* gross pay of the run.
C3_ValeTransporteProporcional ==
    (TemHolerite /\ run.form.tipo_contrato = "CLT" /\ run.form.vt_fixo = 0)
        => /\ Lancado(run.out.descontos, "Vale Transporte")
                = DivInt(Mul(run.out.total_recebimentos,
                             MinDec(PercentualVT(run.form), Int2Dec(6))), 100)
           /\ Leq(Lancado(run.out.descontos, "Vale Transporte"),
                  DivInt(Mul(run.out.total_recebimentos, Int2Dec(6)), 100))
           /\ \A p \in {Numeral(8), Numeral(10)} :
                 ValeTransporte([run.form EXCEPT !.vt_percentual = p],
                                run.out.total_recebimentos)
                    = Lido(TRUE, DivInt(Mul(run.out.total_recebimentos, Int2Dec(6)), 100))

\* the percent field is empty and 6% of 3000 is deducted
C3_Witness ==
    /\ TemHolerite /\ run.form.tipo_contrato = "CLT" /\ run.form.vt_fixo = 0
    /\ run.form.vt_percentual = vazio
    /\ run.out.total_recebimentos = Int2Dec(3000)
    /\ Lancado(run.out.descontos, "Vale Transporte") = Int2Dec(180)

\* C4: calc_inss is non-decreasing on [0, 8157.41] and constant above the
\* ceiling: calc_inss(b) = calc_inss(8157.41) for b > 8157.41.
C4_InssMonotona ==
    probe.fn = "inss"
        => /\ Leq(probe.b, INSS_TETO) => Leq(probe.ra, probe.rb)
           /\ Gt(probe.b, INSS_TETO) => probe.rb = probe.rc

\* a at the threshold 4190.83, b the float next above the ceiling
C4_Witness ==
    /\ probe.fn = "inss"
    /\ probe.a = Dec(419083, 2)
    /\ probe.b = Acima(INSS_TETO)
    /\ Gt(probe.b, INSS_TETO)
    /\ probe.rb = probe.rc
    /\ Perto(probe.rb, Dec(8722992, 4))
    /\ Lt(probe.ra, probe.rb)

\* the finite thresholds of the income-tax table
LimiaresIrrf == 1..(Len(IRRF_TABELA) - 1)

\* C5 as stated: at every finite threshold t the tax of the row that ends at
\* t equals, to rounding, the tax the next row's rate and deduction give at t.
C5_Continua ==
    probe.fn = "irrf"
        => \A k \in LimiaresIrrf :
              probe.a = IRRF_TABELA[k].faixa
                  => Perto(probe.ra, IrrfFaixa(IRRF_TABELA[k + 1], probe.a))

\* C5 amended: at every finite threshold t the tax of the row that ends at t
\* and the tax the next row gives at t differ by less than one cent: they
\* agree to rounding at 2428.80, and the next row gives less at 2826.65, at
\* 3751.05 (0.00125 each) and at 4664.68 (0.006); the tax of the float next
\* above t is less than one cent away from the tax at t.
C5_QuaseContinua ==
    probe.fn = "irrf"
        => \A k \in LimiaresIrrf :
              probe.a = IRRF_TABELA[k].faixa
                  => LET seguinte == IrrfFaixa(IRRF_TABELA[k + 1], probe.a)
                     IN  /\ Lt(Modulo(Sub(probe.ra, seguinte)), Centavo)
                         /\ k = 1 => Perto(probe.ra, seguinte)
                         /\ k > 1 => Lt(seguinte, probe.ra) /\ ~Perto(probe.ra, seguinte)
                         /\ probe.b = Acima(probe.a)
                               => Lt(Modulo(Sub(probe.rb, probe.ra)), Centavo)

\* at 4664.68 the 22.5% row gives 374.063 and the 27.5% row 374.057, which
\* is what the float next above 4664.68 pays
C5_Witness ==
    /\ probe.fn = "irrf"
    /\ probe.a = Dec(466468, 2)
    /\ probe.b = Acima(probe.a)
    /\ Perto(probe.ra, Dec(374063, 3))
    /\ Perto(IrrfFaixa(IRRF_TABELA[5], probe.a), Dec(374057, 3))
    /\ Perto(probe.rb, Dec(374057, 3))

\* C7: a PJ pay slip lists IRPJ, CSLL, PIS/COFINS and ISS, in this order, at
\* 15%, 9%, 6.5% and 3.5% of the salary, then the alimony only if it is > 0;
\* total earnings = salary, total deductions = the sum of the listed amounts
\* = 34% of salary + alimony (to rounding) and net = salary - total
\* deductions.
C7_PJ ==
    (TemHolerite /\ run.form.tipo_contrato = "PJ")
        => LET sal == salario(run.form, run.resp)
               pens == pensao(run.form, sal)
               o == run.out
           IN  /\ o.recebimentos = << <<"Faturamento", sal>> >>
               /\ SubSeq(o.descontos, 1, 4)
                     = << <<"IRPJ (15%)", Mul(sal, Dec(15, 2))>>,
                          <<"CSLL (9%)", Mul(sal, Dec(9, 2))>>,
                          <<"PIS/COFINS (6,5%)", Mul(sal, Dec(65, 3))>>,
                          <<"ISS (3,5%)", Mul(sal, Dec(35, 3))>> >>
               /\ SubSeq(o.descontos, 5, Len(o.descontos))
                     = (IF Gt(pens, Zero) THEN << <<"Pensao Alimenticia", pens>> >> ELSE <<>>)
               /\ o.total_recebimentos = sal
               /\ o.total_descontos = SomaLista(o.descontos)
               /\ Perto(o.total_descontos, Add(Mul(sal, Dec(34, 2)), pens))
               /\ o.liquido = Sub(sal, o.total_descontos)

\* 10000 a day for the 30 days of April 2025, no alimony
C7_Witness ==
    /\ TemHolerite /\ run.form.tipo_contrato = "PJ"
    /\ run.form.paga_pensao = 0
    /\ run.out.total_recebimentos = Int2Dec(300000)
    /\ Len(run.out.descontos) = 4
    /\ run.out.total_descontos = Int2Dec(102000)
    /\ run.out.liquido = Int2Dec(198000)

\* C8: a MEI pay slip lists the DAS, 75.90 + 1.00 for activity 1 (commerce or
\* industry), 75.90 + 5.00 for 2 (services) and 75.90 + 1.00 + 5.00 for 3
\* (both), then the alimony only if it is > 0; net = salary - (DAS + alimony).
C8_MEI ==
    (TemHolerite /\ run.form.tipo_contrato = "MEI")
        => LET sal == salario(run.form, run.resp)
               pens == pensao(run.form, sal)
               o == run.out
               das == CASE run.resp.tipo_ativ = 1 -> Dec(7690, 2)
                        [] run.resp.tipo_ativ = 2 -> Dec(8090, 2)
                        [] run.resp.tipo_ativ = 3 -> Dec(8190, 2)
           IN  /\ run.resp.tipo_ativ \in {1, 2, 3}
               /\ o.recebimentos = << <<"Faturamento", sal>> >>
               /\ o.descontos
                     = << <<"DAS (mensal)", das>> >>
                       \o (IF Gt(pens, Zero) THEN << <<"Pensao Alimenticia", pens>> >> ELSE <<>>)
               /\ o.total_recebimentos = sal
               /\ o.total_descontos = Add(das, pens)
               /\ o.liquido = Sub(sal, Add(das, pens))

\* activity 3 on a monthly total of 10000, no alimony: 81.90 and 9918.10
C8_Witness ==
    /\ TemHolerite /\ run.form.tipo_contrato = "MEI"
    /\ run.resp.tipo_ativ = 3
    /\ run.out.total_recebimentos = Int2Dec(10000)
    /\ run.out.descontos = << <<"DAS (mensal)", Dec(8190, 2)>> >>
    /\ run.out.liquido = Dec(991810, 2)

\* C9: on a CLT pay slip a voucher in fixed-deduction mode is deducted at
\* exactly its fixed amount (0 when that field is empty or no number),
\* whatever the percent, the daily value, the month and the gross pay are;
\* this holds for the transport, meal and food vouchers separately.
C9_DescontoFixo ==
    (TemHolerite /\ run.form.tipo_contrato = "CLT")
        => /\ run.form.vt_fixo # 0
                => Lancado(run.out.descontos, "Vale Transporte")
                      = LerFloatTry(run.form.valor_vt_fixo)
           /\ run.form.vr_fixo # 0
                => Lancado(run.out.descontos, "Vale Refeicao")
                      = LerFloatTry(run.form.valor_vr_fixo)
           /\ run.form.va_fixo # 0
                => Lancado(run.out.descontos, "Vale Alimentacao")
                      = LerFloatTry(run.form.valor_va_fixo)

\* transport fixed at 200 and meal fixed at 150,50 with a daily meal value
\* of 20 typed as well
C9_Witness ==
    /\ TemHolerite /\ run.form.tipo_contrato = "CLT"
    /\ run.form.vt_fixo = 1 /\ run.form.vr_fixo = 1 /\ run.form.valor_vr = Numeral(20)
    /\ Rotulos(run.out.descontos) = <<"INSS", "IRRF", "Vale Transporte", "Vale Refeicao">>
    /\ Lancado(run.out.descontos, "Vale Transporte") = Int2Dec(200)
    /\ Lancado(run.out.descontos, "Vale Refeicao") = Dec(15050, 2)

\* what a field holds as a number: 0 when it is empty or no number
Numero(s) == LerFloatOu(s, Zero).v

\* the InputSpec constraints: every value a number >= 0, the alimony percent
\* within 0..100, the transport percent within 0..6
EntradasValidas(f) ==
    /\ \A s \in {f.valor, f.horas, f.percentual, f.valor_pensao, f.valor_vr_fixo,
                 f.valor_vr, f.valor_va_fixo, f.valor_va, f.valor_vt_fixo,
                 f.vt_percentual, f.atraso_horas, f.atraso_minutos, f.faltas} :
          IsFinite(Numero(s)) /\ Leq(Zero, Numero(s))
    /\ (f.paga_pensao # 0 /\ f.tipo_pensao = "percent")
          => Leq(Numero(f.valor_pensao), Int2Dec(100))
    /\ Leq(Numero(f.vt_percentual), Int2Dec(6))

\* every optional entry of the form is as the constructor leaves it
SemExtras(f) ==
    \A k \in DOMAIN f :
        k \in {"tipo_contrato", "tipo_valor", "tipo_calculo", "valor", "mes", "ano"}
        \/ f[k] = FormInicial[k]

\* C10: on a CLT pay slip computed from inputs that are >= 0, total earnings
\* = gross pay = salary + overtime, total deductions = the sum of the listed
\* deductions, net = total earnings - total deductions; with no extras the
\* deductions are INSS, IRRF and the transport voucher at 6% of gross pay.
C10_TotaisCLT ==
    (TemHolerite /\ run.form.tipo_contrato = "CLT" /\ EntradasValidas(run.form))
        => LET o == run.out
               sal == salario(run.form, run.resp)
           IN  /\ o.recebimentos[1] = <<"Salario Bruto", o.total_recebimentos>>
               /\ o.recebimentos[2] = <<"Salario Base", sal>>
               /\ o.total_recebimentos = Add(sal, Lancado(o.recebimentos, "Horas Extras"))
               /\ o.total_descontos = SomaLista(o.descontos)
               /\ o.liquido = Sub(o.total_recebimentos, o.total_descontos)
               /\ SemExtras(run.form)
                     => o.descontos
                           = << <<"INSS", calc_inss(o.total_recebimentos)>>,
                                <<"IRRF", calc_irrf(Sub(o.total_recebimentos,
                                                        calc_inss(o.total_recebimentos)))>>,
                                <<"Vale Transporte",
                                  DivInt(Mul(o.total_recebimentos, Int2Dec(6)), 100)>> >>

\* a monthly total of 3000 with no extras: 247.23 + 24.29775 + 180
C10_Witness ==
    /\ TemHolerite /\ run.form.tipo_contrato = "CLT" /\ EntradasValidas(run.form)
    /\ run.form.tipo_valor = "total"
    /\ run.out.total_recebimentos = Int2Dec(3000)
    /\ Rotulos(run.out.descontos) = <<"INSS", "IRRF", "Vale Transporte">>
    /\ run.out.descontos[1][2] = Dec(24723, 2)
    /\ Perto(run.out.descontos[2][2], Dec(2429775, 5))
    /\ run.out.descontos[3][2] = Int2Dec(180)
    /\ Perto(run.out.total_descontos, Dec(45152775, 5))
    /\ Perto(run.out.liquido, Dec(254847225, 5))

\* a field that holds text which is no number (an empty field is absent);
\* the comma is read as the decimal point
NaoNumerico(s) == s # vazio /\ ~FloatOk(ReplaceComma(s))

\* the same for the lateness and absence fields, which are converted
\* without replacing the comma
NaoNumericoCru(s) == s # vazio /\ ~FloatOk(s)

\* one of the inputs the selected pipeline reads is malformed: the year is
\* not 4 digits or no number to int(), or a numeric field holds text that is
\* no number; of a voucher only the field of its selected mode is read
Malformado(f) ==
    \/ ~AnoValido(f)
    \/ NaoNumerico(f.valor)
    \/ (f.mes # vazio /\ ~IntOk(f.mes))
    \/ ~IntOk(f.ano)
    \/ (f.paga_pensao # 0 /\ NaoNumerico(f.valor_pensao))
    \/ /\ f.tipo_contrato = "CLT"
       /\ \/ NaoNumerico(f.horas) \/ NaoNumerico(f.percentual)
          \/ NaoNumericoCru(f.atraso_horas) \/ NaoNumericoCru(f.atraso_minutos)
          \/ NaoNumericoCru(f.faltas)
          \/ NaoNumerico(IF f.vt_fixo # 0 THEN f.valor_vt_fixo ELSE f.vt_percentual)
          \/ NaoNumerico(IF f.vr_fixo # 0 THEN f.valor_vr_fixo ELSE f.valor_vr)
          \/ NaoNumerico(IF f.va_fixo # 0 THEN f.valor_va_fixo ELSE f.valor_va)

\* C11 as stated: a run on a form with a malformed input that the selected
\* pipeline reads ends in an error, and no pay slip is shown.
C11_MalformadoErro ==
    (Terminou /\ Malformado(run.form)) => (run.out.kind = "erro" /\ pc # "popup")

\* C12: on every pay slip computed from inputs within the InputSpec
\* constraints every listed earning and deduction, total earnings and total
\* deductions are >= 0 (net pay is not constrained).
C12_NaoNegativos ==
    (TemHolerite /\ EntradasValidas(run.form))
        => /\ \A k \in 1..Len(run.out.recebimentos) : Leq(Zero, run.out.recebimentos[k][2])
           /\ \A k \in 1..Len(run.out.descontos) : Leq(Zero, run.out.descontos[k][2])
           /\ Leq(Zero, run.out.total_recebimentos)
           /\ Leq(Zero, run.out.total_descontos)

\* MEI on a monthly total of 100 with a fixed alimony of 300: the deductions
\* are 81.90 and 300, and the net pay is below 0
C12_Witness ==
    /\ TemHolerite /\ EntradasValidas(run.form) /\ run.form.tipo_contrato = "MEI"
    /\ run.out.total_recebimentos = Int2Dec(100)
    /\ run.out.total_descontos = Dec(38190, 2)
    /\ Lt(run.out.liquido, Zero)
    /\ \A k \in 1..Len(run.out.descontos) : Gt(run.out.descontos[k][2], Zero)

\* the alimony is elected as a percent, and the percent field holds a number
PensaoPercentual(f) ==
    f.paga_pensao # 0 /\ f.tipo_pensao = "percent" /\ LerFloat(f.valor_pensao).ok

\* the base monthly pay as the pay slip lists it
BaseLancada(f, o) ==
    IF f.tipo_contrato = "CLT" THEN Lancado(o.recebimentos, "Salario Base")
    ELSE Lancado(o.recebimentos, "Faturamento")

\* C13 as stated: with a percent alimony of rate r the alimony deducted is
\* r/100 of gross pay in all three pipelines; in CLT gross pay is salary +
\* overtime (the total earnings of the pay slip).
C13_SobreBruto ==
    (TemHolerite /\ PensaoPercentual(run.form))
        => Perto(Lancado(run.out.descontos, "Pensao Alimenticia"),
                 DivInt(Mul(run.out.total_recebimentos, LerFloat(run.form.valor_pensao).v),
                        100))

\* C13 amended: with a percent alimony of rate r the alimony deducted is
\* r/100 of the base monthly pay (salary) in all three pipelines; in CLT the
\* overtime is not part of it, so with overtime > 0 and r > 0 it is less than
\* r/100 of gross pay.
C13_SobreSalario ==
    (TemHolerite /\ PensaoPercentual(run.form))
        => LET r == LerFloat(run.form.valor_pensao).v
               pens == Lancado(run.out.descontos, "Pensao Alimenticia")
           IN  /\ pens = DivInt(Mul(BaseLancada(run.form, run.out), r), 100)
               /\ (Gt(Lancado(run.out.recebimentos, "Horas Extras"), Zero) /\ Gt(r, Zero))
                     => /\ Lt(pens, DivInt(Mul(run.out.total_recebimentos, r), 100))
                        /\ ~Perto(pens, DivInt(Mul(run.out.total_recebimentos, r), 100))

\* CLT, 3000 a month, 10 overtime hours at 50% (187.50) and an alimony of
\* 10%: 300 is deducted, not 318.75
C13_Witness ==
    /\ TemHolerite /\ PensaoPercentual(run.form) /\ run.form.tipo_contrato = "CLT"
    /\ Lancado(run.out.recebimentos, "Horas Extras") = Dec(18750, 2)
    /\ run.out.total_recebimentos = Dec(318750, 2)
    /\ Lancado(run.out.descontos, "Pensao Alimenticia") = Int2Dec(300)

\* C14 as stated: on a CLT pay slip computed from a daily value and a start
\* day d, a meal or food voucher in proportional mode is deducted at daily
\* value * (business days from d to the end of the month) * 0.2.
C14_DiasUteisDesdeInicio ==
    (TemHolerite /\ run.form.tipo_contrato = "CLT" /\ PedeDia(run.form))
        => LET uteis == count_uteis(ano(run.form), mes(run.form), run.resp.dia_ini).v
           IN  /\ run.form.vr_fixo = 0
                    => Perto(Lancado(run.out.descontos, "Vale Refeicao"),
                             Mul(MulInt(Numero(run.form.valor_vr), uteis), Dec(2, 1)))
               /\ run.form.va_fixo = 0
                    => Perto(Lancado(run.out.descontos, "Vale Alimentacao"),
                             Mul(MulInt(Numero(run.form.valor_va), uteis), Dec(2, 1)))

\* C15: on every pay slip, of any contract type, the base monthly pay is the
\* base value * days in the month for a daily value over the whole month,
\* the base value * (days in the month - d + 1) for a daily value from start
\* day d (1 <= d <= days in the month), and the base value itself for a
\* monthly total, whatever the scope (no start day is asked then).
C15_SalarioBase ==
    TemHolerite
        => LET v == FloatVal(ReplaceComma(run.form.valor))
               n == DaysInMonth(IntVal(run.form.ano), IntVal(run.form.mes))
               d == run.resp.dia_ini
               base == BaseLancada(run.form, run.out)
           IN  /\ (run.form.tipo_valor = "diario" /\ run.form.tipo_calculo = "mes")
                     => base = MulInt(v, n)
               /\ (run.form.tipo_valor = "diario" /\ run.form.tipo_calculo = "data")
                     => d \in 1..n /\ base = MulInt(v, n - d + 1)
               /\ run.form.tipo_valor = "total"
                     => base = v /\ d = Nenhum

\* PJ, 100 a day from 15 April 2025: 16 days, 1600
C15_Witness ==
    /\ TemHolerite /\ run.form.tipo_contrato = "PJ"
    /\ run.form.tipo_valor = "diario" /\ run.form.tipo_calculo = "data"
    /\ run.form.valor = Numeral(100) /\ run.form.mes = Numeral(4)
    /\ run.resp.dia_ini = DiaMeio
    /\ BaseLancada(run.form, run.out) = Int2Dec(1600)

Se(c, rotulo) == IF c THEN <<rotulo>> ELSE <<>>

\* the amounts calcular computes for the optional entries of a CLT pay slip
\* from the form f and the dialog answers r: overtime, alimony, the meal and
\* food vouchers, lateness and absences
ValoresCLT(f, r) ==
    LET sal == salario(f, r)
        v_h == val_hora(IF f.tipo_valor = "diario" THEN valor(f)
                        ELSE DivInt(sal, dias_calc(f, r)))
        uteis == count_uteis(ano(f), mes(f), 1).v
    IN  [val_h_extras |-> IF Gt(Numero(f.horas), Zero)
                          THEN calc_h_extra(v_h, Numero(f.horas), Numero(f.percentual))
                          ELSE Zero,
         pensao |-> pensao(f, sal),
         desc_vr |-> DescontoVale(f.vr_fixo, f.valor_vr_fixo, f.valor_vr, uteis).v,
         desc_va |-> DescontoVale(f.va_fixo, f.valor_va_fixo, f.valor_va, uteis).v,
         valor_atraso |-> Mul(v_h, Add(LerFloatCru(f.atraso_horas).v,
                                       DivInt(LerFloatCru(f.atraso_minutos).v, 60))),
         valor_falta |-> Mul(IF f.tipo_valor = "diario" THEN valor(f)
                             ELSE DivInt(sal, dias(f)),
                             LerFloatCru(f.faltas).v)]

\* the labels C16 expects among the earnings of a CLT pay slip whose
\* amounts are a: the overtime is expected when its amount is > 0
RotulosRecebimentosCLT(a) ==
    <<"Salario Bruto", "Salario Base">> \o Se(Gt(a.val_h_extras, Zero), "Horas Extras")

\* the labels C16 expects among the deductions of a CLT pay slip whose
\* amounts are a: an optional entry is expected when its amount is > 0
RotulosDescontosCLT(a) ==
    <<"INSS", "IRRF">>
    \o Se(Gt(a.pensao, Zero), "Pensao Alimenticia")
    \o <<"Vale Transporte">>
    \o Se(Gt(a.desc_vr, Zero), "Vale Refeicao")
    \o Se(Gt(a.desc_va, Zero), "Vale Alimentacao")
    \o Se(Gt(a.valor_atraso, Zero), "Atraso")
    \o Se(Gt(a.valor_falta, Zero), "Faltas")

\* C16: every CLT pay slip lists, in this order, gross pay, base pay and the
\* overtime only if its amount is > 0; and INSS, IRRF, alimony only if > 0,
\* the transport voucher always (even when 0), meal voucher, food voucher,
\* lateness and absences each only if its amount is > 0; nothing else, in no
\* other order. An optional entry that is listed shows its amount.
C16_OrdemCLT ==
    (TemHolerite /\ run.form.tipo_contrato = "CLT")
        => LET a == ValoresCLT(run.form, run.resp)
               o == run.out
               \* what Lancado gives for an entry that is listed only if > 0
               SeMaior(x) == IF Gt(x, Zero) THEN x ELSE Zero
           IN  /\ Rotulos(o.recebimentos) = RotulosRecebimentosCLT(a)
               /\ Rotulos(o.descontos) = RotulosDescontosCLT(a)
               /\ \A k \in 1..Len(o.descontos) :
                     o.descontos[k][1] \notin {"INSS", "IRRF", "Vale Transporte"}
                        => Gt(o.descontos[k][2], Zero)
               /\ \A k \in 3..Len(o.recebimentos) : Gt(o.recebimentos[k][2], Zero)
               /\ Lancado(o.recebimentos, "Horas Extras") = SeMaior(a.val_h_extras)
               /\ Lancado(o.descontos, "Pensao Alimenticia") = SeMaior(a.pensao)
               /\ Lancado(o.descontos, "Vale Refeicao") = SeMaior(a.desc_vr)
               /\ Lancado(o.descontos, "Vale Alimentacao") = SeMaior(a.desc_va)
               /\ Lancado(o.descontos, "Atraso") = SeMaior(a.valor_atraso)
               /\ Lancado(o.descontos, "Faltas") = SeMaior(a.valor_falta)

\* a base value of 0 with every optional group of the form filled in: the
\* vouchers are listed; the overtime, the alimony, the lateness and the
\* absences have inputs > 0 and amounts of 0, and are not listed
C16_Witness ==
    /\ TemHolerite /\ run.form.tipo_contrato = "CLT"
    /\ Numero(run.form.valor) = Zero
    /\ Gt(Numero(run.form.horas), Zero) /\ Gt(Numero(run.form.valor_pensao), Zero)
    /\ Gt(Numero(run.form.atraso_horas), Zero) /\ Gt(Numero(run.form.faltas), Zero)
    /\ Rotulos(run.out.recebimentos) = <<"Salario Bruto", "Salario Base">>
    /\ Rotulos(run.out.descontos)
          = <<"INSS", "IRRF", "Vale Transporte", "Vale Refeicao", "Vale Alimentacao">>
    /\ Lancado(run.out.descontos, "Vale Refeicao") = Dec(88, 0)

Perguntou(q) == \E k \in 1..Len(perguntas) : perguntas[k] = q

\* C17: a run opens each dialog at most once, the start-day dialog only for
\* a daily value from a specific date (never for a monthly total), the MEI
\* dialog only for the MEI contract, the start-day dialog first when both
\* are opened; a finished run has shown a pay slip, was cancelled, or has
\* reported an error, and the popup is open only for a pay slip.
C17_Perguntas ==
    /\ perguntas \in {<<>>, <<"dia_ini">>, <<"mei">>, <<"dia_ini", "mei">>}
    /\ Perguntou("dia_ini")
          => (run.form.tipo_valor = "diario" /\ run.form.tipo_calculo = "data")
    /\ Perguntou("mei") => run.form.tipo_contrato = "MEI"
    /\ pc = "dia_ini" => perguntas = <<"dia_ini">>
    /\ pc = "mei" => (Perguntou("mei") /\ run.resp.tipo_ativ = Nenhum)
    /\ Terminou => /\ run.out.kind \in {"holerite", "cancelado", "erro"}
                   /\ pc = "popup" => run.out.kind = "holerite"

\* MEI on a daily value from a start day: both dialogs were answered, the
\* start day first, and the pay slip is shown
C17_Witness ==
    /\ perguntas = <<"dia_ini", "mei">>
    /\ run.form.tipo_contrato = "MEI" /\ run.form.tipo_valor = "diario"
    /\ run.resp.dia_ini = DiaMeio /\ run.resp.tipo_ativ = 2
    /\ pc = "popup" /\ run.out.kind = "holerite"

\* row k of INSS_FAIXAS applied to an amount, after the ceiling
InssFaixa(k, sal) ==
    Sub(Mul(MinDec(sal, INSS_TETO), INSS_FAIXAS[k].pct), INSS_FAIXAS[k].ded)

\* C18: calc_inss never applies the highest row (8157.41, 0.14, 190.40):
\* every amount is billed with the rate and deduction of one of the three
\* lower rows, and the contribution never exceeds 8157.41 * 0.12 - 106.59.
C18_LinhaMaisAltaNunca ==
    probe.fn = "inss"
        => \A x \in {<<probe.a, probe.ra>>, <<probe.b, probe.rb>>, <<INSS_TETO, probe.rc>>} :
              /\ \E k \in 1..(Len(INSS_FAIXAS) - 1) : x[2] = InssFaixa(k, x[1])
              /\ x[2] # InssFaixa(Len(INSS_FAIXAS), x[1])
              /\ Leq(x[2], Sub(Mul(INSS_TETO, Dec(12, 2)), Dec(10659, 2)))

\* at the ceiling and at 9000 the 12% row gives 872.2992, the 14% row would
\* give 951.6374
C18_Witness ==
    /\ probe.fn = "inss"
    /\ probe.a = INSS_TETO /\ probe.b = Int2Dec(9000)
    /\ probe.ra = probe.rb
    /\ Perto(probe.rb, Dec(8722992, 4))
    /\ Perto(InssFaixa(4, probe.b), Dec(9516374, 4))

====
